---- MODULE Spec2Model ----
(***************************************************************************)
(* Model of the two desktop utilities of ZadniProjekt:                     *)
(*   main.py  the API key validator  (validate_api_key, perform_validation,*)
(*            clear_fields, root.valid_api_key)                            *)
(*   temp.py  the generic API tester (make_api_request,                    *)
(*            perform_api_request, clear_fields)                           *)
(* Text is a sequence of one-character strings; a percent escape of a URL  *)
(* ("%3D") is one element.  A handler is cut where it blocks (in           *)
(* requests.get, in the modal messagebox); between two such points it is   *)
(* one step.                                                               *)
(***************************************************************************)
EXTENDS Integers, Sequences, FiniteSets, TLC

\* ------------------------------------------------------------------ bounds
\* most '&'-separated pieces in the query string of a base URL of InitUrl
MaxParams == 3
\* longest text typed into api_key_entry of the validator
MaxKeyLen == 2

\* ------------------------------------------------------- program constants
\* json.dumps(response_data, indent=2)
Indent == 2
\* response.text[:500]
SnippetLen == 500

\* ------------------------------------------------------------ text helpers
Min(a, b) == IF a < b THEN a ELSE b

SeqsUpTo(S, n) == UNION {[1..m -> S] : m \in 0..n}

\* s[:n]
Take(s, n) == SubSeq(s, 1, Min(n, Len(s)))

\* str.strip(): leading and trailing blanks removed
RECURSIVE LStrip(_)
LStrip(s) == IF s # <<>> /\ Head(s) = " " THEN LStrip(Tail(s)) ELSE s

RECURSIVE RStrip(_)
RStrip(s) ==
    IF s # <<>> /\ s[Len(s)] = " " THEN RStrip(SubSeq(s, 1, Len(s) - 1)) ELSE s

Strip(s) == RStrip(LStrip(s))

\* index of the first occurrence of c in s, 0 when there is none
IndexOf(s, c) ==
    IF \E i \in 1..Len(s) : s[i] = c
    THEN CHOOSE i \in 1..Len(s) : s[i] = c /\ \A j \in 1..(i - 1) : s[j] # c
    ELSE 0

\* str.split(sep): the pieces of s between the separators
RECURSIVE Split(_, _)
Split(s, sep) ==
    LET i == IndexOf(s, sep)
    IN  IF i = 0 THEN <<s>>
        ELSE <<SubSeq(s, 1, i - 1)>> \o Split(SubSeq(s, i + 1, Len(s)), sep)

RECURSIVE Flatten(_)
Flatten(ss) == IF ss = <<>> THEN <<>> ELSE Head(ss) \o Flatten(Tail(ss))

\* sep.join(parts)
RECURSIVE Join(_, _)
Join(parts, sep) ==
    IF parts = <<>> THEN <<>>
    ELSE IF Len(parts) = 1 THEN parts[1]
    ELSE parts[1] \o <<sep>> \o Join(Tail(parts), sep)

\* ------------------------------------------------------- urllib.parse model
\* urllib.parse.unquote_plus of one element: '+' is a blank, an escape its
\* character
UnquoteChar(c) ==
    CASE c = "+" -> " "
      [] c = "%3D" -> "="
      [] c = "%26" -> "&"
      [] c = "%2B" -> "+"
      [] c = "%3F" -> "?"
      [] c = "%5B" -> "["
      [] OTHER -> c

Unquote(s) == [i \in 1..Len(s) |-> UnquoteChar(s[i])]

\* urllib.parse.quote_plus of one character: reserved characters are escaped
QuoteChar(c) ==
    CASE c = " " -> "+"
      [] c = "=" -> "%3D"
      [] c = "&" -> "%26"
      [] c = "+" -> "%2B"
      [] c = "?" -> "%3F"
      [] c = "[" -> "%5B"
      [] OTHER -> c

QuotePlus(s) == [i \in 1..Len(s) |-> QuoteChar(s[i])]

\* parse_qsl(qs, keep_blank_values): the (name, value) pairs of a query
\* string.  An empty piece is skipped; a piece without '=' or with an empty
\* value is kept only with keep_blank_values.
RECURSIVE PairsOf(_, _)
PairsOf(pieces, keep_blank_values) ==
    IF pieces = <<>> THEN <<>>
    ELSE
        LET name_value == Head(pieces)
            i == IndexOf(name_value, "=")
            name == IF i = 0 THEN name_value ELSE SubSeq(name_value, 1, i - 1)
            value == IF i = 0 THEN <<>>
                     ELSE SubSeq(name_value, i + 1, Len(name_value))
            rest == PairsOf(Tail(pieces), keep_blank_values)
        IN  IF name_value = <<>> THEN rest
            ELSE IF i = 0 /\ ~keep_blank_values THEN rest
            ELSE IF value = <<>> /\ ~keep_blank_values THEN rest
            ELSE <<[name |-> Unquote(name), value |-> Unquote(value)]>> \o rest

parse_qsl(qs, keep_blank_values) ==
    IF qs = <<>> THEN <<>> ELSE PairsOf(Split(qs, "&"), keep_blank_values)

\* the values of name among pairs, in order
RECURSIVE ValuesOf(_, _)
ValuesOf(pairs, name) ==
    IF pairs = <<>> THEN <<>>
    ELSE (IF Head(pairs).name = name THEN <<Head(pairs).value>> ELSE <<>>)
         \o ValuesOf(Tail(pairs), name)

\* the names of pairs in order of first occurrence (dict insertion order)
RECURSIVE NamesOf(_, _)
NamesOf(pairs, seen) ==
    IF pairs = <<>> THEN <<>>
    ELSE IF Head(pairs).name \in seen THEN NamesOf(Tail(pairs), seen)
    ELSE <<Head(pairs).name>>
         \o NamesOf(Tail(pairs), seen \cup {Head(pairs).name})

\* parse_qs(qs) with its default keep_blank_values=False: a dict, here the
\* sequence of its items [name, values] in insertion order
parse_qs(qs) ==
    LET pairs == parse_qsl(qs, FALSE)
        names == NamesOf(pairs, {})
    IN  [i \in 1..Len(names) |->
            [name |-> names[i], values |-> ValuesOf(pairs, names[i])]]

\* query_params[key] = [value]: an existing item keeps its place, a new one
\* goes last
DictSet(d, key, values) ==
    IF \E i \in 1..Len(d) : d[i].name = key
    THEN [i \in 1..Len(d) |->
            IF d[i].name = key THEN [name |-> key, values |-> values] ELSE d[i]]
    ELSE Append(d, [name |-> key, values |-> values])

\* urlencode(query_params, doseq=True)
urlencode(d) ==
    LET item(e) == [j \in 1..Len(e.values) |->
                      QuotePlus(e.name) \o <<"=">> \o QuotePlus(e.values[j])]
    IN  Join(Flatten([i \in 1..Len(d) |-> item(d[i])]), "&")

\* urlparse(url): the part before the first '?' and the query after it.
\* An unbalanced '[' in the network location raises ValueError.
urlparse(url) ==
    LET i == IndexOf(url, "?")
        head == IF i = 0 THEN url ELSE SubSeq(url, 1, i - 1)
    IN  [error |-> \E j \in 1..Len(head) : head[j] = "[",
         head |-> head,
         query |-> IF i = 0 THEN <<>> ELSE SubSeq(url, i + 1, Len(url))]

\* urlunparse(parsed._replace(query=new_query))
urlunparse(head, query) ==
    IF query = <<>> THEN head ELSE head \o <<"?">> \o query

\* make_api_request, the construction of final_url: [error, url]
KeyGivenEither(api_key, key_param_name) ==
    api_key # <<>> \/ key_param_name # <<>>

\* if api_key and key_param_name
KeyGiven(api_key, key_param_name) == api_key # <<>> /\ key_param_name # <<>>

BuildUrl(base_url, api_key, key_param_name) ==
    LET parsed_url == urlparse(base_url)
        query_params == DictSet(parse_qs(parsed_url.query),
                                key_param_name, <<api_key>>)
        new_query == urlencode(query_params)
    IN  IF parsed_url.error THEN [error |-> TRUE, url |-> <<>>]
        ELSE [error |-> FALSE, url |-> urlunparse(parsed_url.head, new_query)]

FinalUrl(base_url, api_key, key_param_name) ==
    IF KeyGiven(api_key, key_param_name)
    THEN BuildUrl(base_url, api_key, key_param_name)
    ELSE [error |-> FALSE, url |-> base_url]

\* --------------------------------------------------------------- JSON model
\* A JSON value is [t, v]: t the type, v the content (the members <<name,
\* value>> of an object, the items of an array, the text of a string).
JNull == [t |-> "null", v |-> 0]
JNum(n) == [t |-> "num", v |-> n]
JStr(s) == [t |-> "str", v |-> s]
JArr(items) == [t |-> "arr", v |-> items]
JObj(members) == [t |-> "obj", v |-> members]
\* a body that json.loads rejects; v is response.text
NotJson(text) == [t |-> "text", v |-> text]

IsJson(body) == body.t # "text"

\* the texts of the message field are sequences of phrases; str.lower()
LowerPhrase(p) ==
    CASE p = "Invalid API key" -> "invalid api key"
      [] p = "City Not Found" -> "city not found"
      [] p = ". Please see the FAQ." -> ". please see the faq."
      [] OTHER -> p

Lower(s) == [i \in 1..Len(s) |-> LowerPhrase(s[i])]

\* phrase in message
Contains(message, phrase) == \E i \in 1..Len(message) : message[i] = phrase

\* one line of json.dumps output: ind leading blanks, then txt
Line(ind, txt) == [ind |-> ind, txt |-> txt]

ScalarText(value) ==
    CASE value.t = "null" -> <<"null">>
      [] value.t = "num" -> <<"number">>
      [] value.t = "str" -> <<"\"">> \o value.v \o <<"\"">>
      [] value.t = "arr" -> <<"[]">>
      [] value.t = "obj" -> <<"{}">>

\* json.dumps(value, indent=step): the lines of the text.  The first line is
\* returned without indentation: the caller places it after its own prefix.
RECURSIVE Dump(_, _, _)
Dump(value, level, step) ==
    LET Entry(prefix, sub, last) ==
            LET lines == Dump(sub, level + 1, step)
                first == Line(step * (level + 1), prefix \o lines[1].txt)
                all == <<first>> \o Tail(lines)
                n == Len(all)
            IN  IF last THEN all
                ELSE [i \in 1..n |->
                        IF i = n THEN Line(all[i].ind, all[i].txt \o <<",">>)
                        ELSE all[i]]
        n == Len(value.v)
    IN  IF value.t = "obj" /\ value.v # <<>>
        THEN <<Line(0, <<"{">>)>>
             \o Flatten([i \in 1..n |->
                    Entry(<<"\"", value.v[i][1], "\": ">>, value.v[i][2], i = n)])
             \o <<Line(step * level, <<"}">>)>>
        ELSE IF value.t = "arr" /\ value.v # <<>>
        THEN <<Line(0, <<"[">>)>>
             \o Flatten([i \in 1..n |-> Entry(<<>>, value.v[i], i = n)])
             \o <<Line(step * level, <<"]">>)>>
        ELSE <<Line(0, ScalarText(value))>>

JsonDumps(value) == Dump(value, 0, Indent)

\* response_data.get("message", ""): [error, value]; a value that is no
\* object has no get
RECURSIVE Lookup(_, _, _)
Lookup(members, name, default) ==
    IF members = <<>> THEN default
    ELSE IF members[Len(members)][1] = name THEN members[Len(members)][2]
    ELSE Lookup(SubSeq(members, 1, Len(members) - 1), name, default)

GetMessage(response_data) ==
    IF response_data.t # "obj" THEN [error |-> TRUE, value |-> JNull]
    ELSE [error |-> FALSE,
          value |-> Lookup(response_data.v, "message", JStr(<<>>))]

\* ------------------------------------------------------ sample environment
\* the bodies an endpoint may answer with
LongText == [i \in 1..(SnippetLen + 1) |-> "x"]

BodySeq ==
    << JObj(<< <<"cod", JNum(401)>>,
               <<"message", JStr(<<"Invalid API key">>)>> >>),
       JObj(<< <<"cod", JStr(<<"404">>)>>,
               <<"message", JStr(<<"city not found">>)>> >>),
       JObj(<< <<"message",
                 JStr(<<"city not found", "Invalid API key",
                        ". Please see the FAQ.">>)>> >>),
       JObj(<< <<"name", JStr(<<"London">>)>>,
               <<"main", JObj(<< <<"temp", JNum(280)>>,
                                 <<"list", JArr(<<JNum(1), JNum(2)>>)>> >>)>> >>),
       JObj(<< <<"message", JNum(0)>> >>),
       JObj(<<>>),
       JArr(<<JNum(1), JObj(<<>>)>>),
       NotJson(<<"<html>error</html>">>),
       NotJson(LongText) >>

BodyIds == 1..Len(BodySeq)

\* HTTP status codes an endpoint may answer with
Statuses == {200, 304, 401, 404}

\* the builds of the requests library: what response.json() raises for a body
\* that is not JSON (requests >= 2.27, older requests, older requests with
\* simplejson installed)
Builds == {"modern", "legacy", "legacy_simplejson"}

JsonErrorOf(build) ==
    CASE build = "modern" -> "requests.JSONDecodeError"
      [] build = "legacy" -> "json.JSONDecodeError"
      [] build = "legacy_simplejson" -> "simplejson.JSONDecodeError"

\* isinstance(e, requests.exceptions.RequestException)
IsRequestException(exc) ==
    exc \in {"ConnectionError", "Timeout", "HTTPError", "InvalidURL",
             "requests.JSONDecodeError"}

\* isinstance(e, json.JSONDecodeError)
IsJSONDecodeError(exc) ==
    exc \in {"json.JSONDecodeError", "requests.JSONDecodeError"}

\* the except clause that handles exc: the clauses are tried in order
ExceptClause(exc) ==
    IF IsRequestException(exc) THEN "network"
    ELSE IF IsJSONDecodeError(exc) THEN "non_json"
    ELSE "internal"

\* response.raise_for_status() raises HTTPError
RaisesNever(status) == FALSE

RaisesForStatus(status) == 400 <= status /\ status < 600

NoResponse == [kind |-> "none", status |-> 0, body |-> 0, exc |-> ""]
HttpResponse(status, body) ==
    [kind |-> "http", status |-> status, body |-> body, exc |-> ""]
Raises(exc) == [kind |-> "exception", status |-> 0, body |-> 0, exc |-> exc]

\* the exception that requests.get, raise_for_status and response.json()
\* leave the try block with, "" when they complete
Raised(resp, build) ==
    IF resp.kind = "exception" THEN resp.exc
    ELSE IF RaisesForStatus(resp.status) THEN "HTTPError"
    ELSE IF ~IsJson(BodySeq[resp.body]) THEN JsonErrorOf(build)
    ELSE ""

\* the (is_success, text) pair a request function returns; the text is kept
\* as its category and the values interpolated into it
NoText == [exc |-> "", url |-> <<>>, snippet |-> <<>>, payload |-> <<>>,
           message |-> <<>>]
NoResult == [ok |-> FALSE, category |-> "none", text |-> NoText]
Result(ok, category, text) == [ok |-> ok, category |-> category, text |-> text]

\* -------------------------------------------------------------------- state
VARIABLES
    prog,                  \* which program runs: "main" or "temp"
    build,                 \* the installed build of requests
    pc,                    \* position of the UI thread
    api_key_entry,         \* text of the API key entry
    api_url_entry,         \* temp: text of the URL entry
    key_param_name_entry,  \* temp: text of the parameter name entry
    status_area,           \* main: content of the status area
    output_area,           \* temp: content of the output area
    validate_button,       \* main: state of the Validate Key button
    request_button,        \* temp: state of the Make API Request button
    clear_button,          \* state of the Clear button
    valid_api_key,         \* main: root.valid_api_key
    entered_api_key,       \* main: local of perform_validation
    api_url,               \* temp: locals of perform_api_request
    api_key,
    key_param_name,
    final_url,             \* URL given to requests.get (test_url in main)
    response,              \* what requests.get came back with
    result,                \* what the request function returned
    gets,                  \* calls of requests.get in the current invocation
    last_action            \* main: the handler that completed last

widgets == <<api_key_entry, api_url_entry, key_param_name_entry, status_area,
             output_area, validate_button, request_button, clear_button>>
locals == <<entered_api_key, api_url, api_key, key_param_name, final_url,
            response, result>>
vars == <<prog, build, pc, widgets, valid_api_key, locals, gets, last_action>>

\* None and a remembered key
None == [none |-> TRUE, value |-> <<>>]
Some(key) == [none |-> FALSE, value |-> key]

\* content of a text area: a label line, then the text of a result
Area(label, category, text) ==
    [label |-> label, category |-> category, text |-> text]
EmptyArea == Area("", "none", NoText)

\* a completed handler of main.py: which one, whether it validated, the text
\* of the key entry it read and whether a key was remembered when it began
NoAction == [action |-> "none", ok |-> FALSE, entry |-> <<>>, held |-> FALSE]

\* what the user may type
KeyChars == {"k", " "}
KeyTexts ==
    IF prog = "main" THEN SeqsUpTo(KeyChars, MaxKeyLen)
    ELSE {<<>>, <<"k">>, <<" ", "k", "&">>}
UrlTexts == {<<>>, <<" ">>, <<"H">>, <<"H", "?", "a", "=", "1">>, <<"[", "?", "a">>}
ParamTexts == {<<>>, <<"appid">>}

\* the pieces a query string of InitUrl is joined from
Pieces ==
    {<<>>, <<"a">>, <<"a", "=">>, <<"a", "=", "1">>, <<"a", "=", "2">>,
     <<"b", "=", "+">>, <<"b", "=", "1", "=", "2">>, <<"p", "=", "1">>}
Queries == {Join(ps, "&") : ps \in SeqsUpTo(Pieces, MaxParams)}

InitCommon ==
    /\ build \in Builds
    /\ pc = "idle"
    /\ status_area = EmptyArea
    /\ output_area = EmptyArea
    /\ validate_button = "normal"
    /\ request_button = "normal"
    /\ clear_button = "normal"
    /\ valid_api_key = None
    /\ entered_api_key = <<>>
    /\ api_url = <<>>
    /\ api_key = <<>>
    /\ key_param_name = <<>>
    /\ final_url = <<>>
    /\ response = NoResponse
    /\ result = NoResult
    /\ gets = 0
    /\ last_action = NoAction

\* the state after construction of either window
Init ==
    /\ prog \in {"main", "temp"}
    /\ api_key_entry = <<>>
    /\ api_url_entry = <<>>
    /\ key_param_name_entry = IF prog = "temp" THEN <<"appid">> ELSE <<>>
    /\ InitCommon

\* the tester with its three entries filled in
InitUrl ==
    /\ prog = "temp"
    /\ api_url_entry \in {<<"H">>} \cup {<<"H", "?">> \o q : q \in Queries}
    /\ api_key_entry \in {<<>>, <<"k", "&">>}
    /\ key_param_name_entry \in {<<>>, <<"p">>}
    /\ InitCommon

\* ------------------------------------------------------- the user's editing
EditKey(text) ==
    /\ pc = "idle"
    /\ api_key_entry' = text
    /\ UNCHANGED <<prog, build, pc, api_url_entry, key_param_name_entry,
                   status_area, output_area, validate_button, request_button,
                   clear_button, valid_api_key, locals, gets, last_action>>

EditUrl(text) ==
    /\ pc = "idle"
    /\ prog = "temp"
    /\ api_url_entry' = text
    /\ UNCHANGED <<prog, build, pc, api_key_entry, key_param_name_entry,
                   status_area, output_area, validate_button, request_button,
                   clear_button, valid_api_key, locals, gets, last_action>>

EditParam(text) ==
    /\ pc = "idle"
    /\ prog = "temp"
    /\ key_param_name_entry' = text
    /\ UNCHANGED <<prog, build, pc, api_key_entry, api_url_entry,
                   status_area, output_area, validate_button, request_button,
                   clear_button, valid_api_key, locals, gets, last_action>>

\* what a GET of url may come back with
Responses(url) ==
    IF urlparse(url).error THEN {Raises("InvalidURL")}
    ELSE {HttpResponse(s, b) : s \in Statuses, b \in BodyIds}
         \cup {Raises("ConnectionError"), Raises("Timeout")}

\* ------------------------------------------------------ main.py, validator
\* test_url = f"...weather?q=NonExistentCity123&appid={api_key}"
TestUrl(key) == <<"W", "?", "q", "=", "N", "&", "appid", "=">> \o key

\* the except clauses of validate_api_key
ValidateExcept(exc) ==
    LET clause == ExceptClause(exc)
    IN  IF clause = "non_json" THEN Result(FALSE, "non_json", NoText)
        ELSE Result(FALSE, clause, [NoText EXCEPT !.exc = exc])

\* the try block of validate_api_key once requests.get has come back
ValidateResult(resp, lib) ==
    LET exc == Raised(resp, lib)
        got == GetMessage(BodySeq[resp.body])
        message == Lower(got.value.v)
    IN  IF exc # "" THEN ValidateExcept(exc)
        ELSE IF got.error \/ got.value.t # "str"
        THEN ValidateExcept("AttributeError")
        ELSE IF Contains(message, "invalid api key")
        THEN Result(FALSE, "invalid_key", NoText)
        ELSE IF Contains(message, "city not found") /\ resp.status = 404
        THEN Result(TRUE, "valid_city_not_found", NoText)
        ELSE IF resp.status = 200
        THEN Result(TRUE, "valid_200", NoText)
        ELSE Result(FALSE, "unexpected_response",
                    [NoText EXCEPT !.message =
                        IF message # <<>> THEN message ELSE <<"Unknown error">>])

\* validate_api_key up to requests.get: a GET is issued for a key that is
\* not empty
validate_api_key_call(key) ==
    IF key = <<>>
    THEN /\ result' = Result(FALSE, "empty", NoText)
         /\ pc' = "returned"
         /\ gets' = 0
         /\ UNCHANGED final_url
    ELSE /\ final_url' = TestUrl(key)
         /\ gets' = 1
         /\ pc' = "waiting"
         /\ UNCHANGED result

\* perform_validation up to the point where validate_api_key returns early
\* or waits in requests.get
perform_validation_begin ==
    /\ prog = "main"
    /\ pc = "idle"
    /\ validate_button = "normal"
    /\ entered_api_key' = Strip(api_key_entry)
    /\ status_area' = Area("Validating API Key...", "none", NoText)
    /\ validate_button' = "disabled"
    /\ validate_api_key_call(Strip(api_key_entry))
    /\ UNCHANGED <<prog, build, api_key_entry, api_url_entry,
                   key_param_name_entry, output_area, request_button,
                   clear_button, valid_api_key, api_url, api_key,
                   key_param_name, response, last_action>>

\* requests.get comes back and validate_api_key returns
validate_api_key_response(resp) ==
    /\ prog = "main"
    /\ pc = "waiting"
    /\ response' = resp
    /\ result' = ValidateResult(resp, build)
    /\ pc' = "returned"
    /\ UNCHANGED <<prog, build, widgets, valid_api_key, entered_api_key,
                   api_url, api_key, key_param_name, final_url, gets,
                   last_action>>

\* root.valid_api_key after validate_api_key returned
RememberedAlways(res, key, old) == IF res.ok THEN Some(key) ELSE old

Remembered(res, key, old) == IF res.ok THEN Some(key) ELSE None

\* perform_validation after validate_api_key returned
perform_validation_end ==
    /\ prog = "main"
    /\ pc = "returned"
    /\ status_area' =
          IF result.ok
          THEN Area("Validation Successful", result.category, result.text)
          ELSE Area("Validation Failed", result.category, result.text)
    /\ valid_api_key' = Remembered(result, entered_api_key, valid_api_key)
    /\ validate_button' = "normal"
    /\ last_action' =
          [action |-> "validate", ok |-> result.ok, entry |-> api_key_entry,
           held |-> ~valid_api_key.none]
    /\ entered_api_key' = <<>>
    /\ final_url' = <<>>
    /\ response' = NoResponse
    /\ result' = NoResult
    /\ pc' = "idle"
    /\ UNCHANGED <<prog, build, api_key_entry, api_url_entry,
                   key_param_name_entry, output_area, request_button,
                   clear_button, api_url, api_key, key_param_name, gets>>

\* clear_fields of main.py
ClearedKeyKept(old) == old

ClearedKey(old) == None

clear_fields_main ==
    /\ prog = "main"
    /\ pc = "idle"
    /\ api_key_entry' = <<>>
    /\ status_area' = EmptyArea
    /\ valid_api_key' = ClearedKey(valid_api_key)
    /\ last_action' = [action |-> "clear", ok |-> FALSE, entry |-> <<>>,
                        held |-> ~valid_api_key.none]
    /\ UNCHANGED <<prog, build, pc, api_url_entry, key_param_name_entry,
                   output_area, validate_button, request_button, clear_button,
                   locals, gets>>

\* ---------------------------------------------------- temp.py, the tester
\* the except clauses of make_api_request
RequestExcept(exc, url, resp) ==
    LET clause == ExceptClause(exc)
    IN  IF clause = "network"
        THEN Result(FALSE, "network", [NoText EXCEPT !.exc = exc, !.url = url])
        ELSE IF clause = "non_json"
        THEN Result(FALSE, "non_json",
                    [NoText EXCEPT !.url = url,
                        !.snippet = Take(BodySeq[resp.body].v, SnippetLen)])
        ELSE Result(FALSE, "internal", [NoText EXCEPT !.exc = exc])

\* the try block of make_api_request once requests.get has come back
RequestResultPicky(resp, lib, url) ==
    LET exc == Raised(resp, lib)
        got == GetMessage(BodySeq[resp.body])
    IN  IF exc # "" THEN RequestExcept(exc, url, resp)
        ELSE IF ~got.error /\ got.value.t = "str" /\ got.value.v # <<>>
        THEN Result(FALSE, "internal", NoText)
        ELSE Result(TRUE, "success",
                    [NoText EXCEPT !.payload = JsonDumps(BodySeq[resp.body])])

RequestResult(resp, lib, url) ==
    LET exc == Raised(resp, lib)
    IN  IF exc # "" THEN RequestExcept(exc, url, resp)
        ELSE Result(TRUE, "success",
                    [NoText EXCEPT !.payload = JsonDumps(BodySeq[resp.body])])

\* make_api_request up to requests.get
make_api_request_call_unchecked(base_url, key, name) ==
    IF FinalUrl(base_url, key, name).error
    THEN /\ result' = Result(FALSE, "construct",
                             [NoText EXCEPT !.exc = "ValueError"])
         /\ pc' = "returned"
         /\ gets' = 0
         /\ UNCHANGED final_url
    ELSE /\ final_url' = FinalUrl(base_url, key, name).url
         /\ gets' = 1
         /\ pc' = "waiting"
         /\ UNCHANGED result

make_api_request_call(base_url, key, name) ==
    IF base_url = <<>>
    THEN /\ result' = Result(FALSE, "empty", NoText)
         /\ pc' = "returned"
         /\ gets' = 0
         /\ UNCHANGED final_url
    ELSE IF FinalUrl(base_url, key, name).error
    THEN /\ result' = Result(FALSE, "construct",
                             [NoText EXCEPT !.exc = "ValueError"])
         /\ pc' = "returned"
         /\ gets' = 0
         /\ UNCHANGED final_url
    ELSE /\ final_url' = FinalUrl(base_url, key, name).url
         /\ gets' = 1
         /\ pc' = "waiting"
         /\ UNCHANGED result

\* perform_api_request up to the point where make_api_request returns early
\* or waits in requests.get
perform_api_request_begin ==
    /\ prog = "temp"
    /\ pc = "idle"
    /\ request_button = "normal"
    /\ api_url' = Strip(api_url_entry)
    /\ api_key' = Strip(api_key_entry)
    /\ key_param_name' = Strip(key_param_name_entry)
    /\ output_area' = Area("Making API request... Please wait.", "none", NoText)
    /\ request_button' = "disabled"
    /\ clear_button' = "disabled"
    /\ make_api_request_call(Strip(api_url_entry), Strip(api_key_entry),
                             Strip(key_param_name_entry))
    /\ UNCHANGED <<prog, build, api_key_entry, api_url_entry,
                   key_param_name_entry, status_area, validate_button,
                   valid_api_key, entered_api_key, response, last_action>>

\* requests.get comes back and make_api_request returns
make_api_request_response(resp) ==
    /\ prog = "temp"
    /\ pc = "waiting"
    /\ response' = resp
    /\ result' = RequestResult(resp, build, final_url)
    /\ pc' = "returned"
    /\ UNCHANGED <<prog, build, widgets, valid_api_key, entered_api_key,
                   api_url, api_key, key_param_name, final_url, gets,
                   last_action>>

\* perform_api_request after make_api_request returned: the result is shown;
\* a failure opens the modal messagebox, a success re-enables the buttons
perform_api_request_end ==
    /\ prog = "temp"
    /\ pc = "returned"
    /\ output_area' =
          IF result.ok
          THEN Area("API Response (JSON):", result.category, result.text)
          ELSE Area("API Request Failed:", result.category, result.text)
    /\ IF result.ok
       THEN /\ request_button' = "normal"
            /\ clear_button' = "normal"
            /\ pc' = "idle"
       ELSE /\ UNCHANGED <<request_button, clear_button>>
            /\ pc' = "alert"
    /\ api_url' = <<>>
    /\ api_key' = <<>>
    /\ key_param_name' = <<>>
    /\ final_url' = <<>>
    /\ response' = NoResponse
    /\ result' = NoResult
    /\ UNCHANGED <<prog, build, api_key_entry, api_url_entry,
                   key_param_name_entry, status_area, validate_button,
                   valid_api_key, entered_api_key, gets, last_action>>

messagebox_closed_left_disabled ==
    /\ prog = "temp"
    /\ pc = "alert"
    /\ pc' = "idle"
    /\ UNCHANGED <<prog, build, widgets, valid_api_key, locals, gets,
                   last_action>>

\* messagebox.showerror returns when the user closes it; perform_api_request
\* then re-enables the buttons
messagebox_closed ==
    /\ prog = "temp"
    /\ pc = "alert"
    /\ request_button' = "normal"
    /\ clear_button' = "normal"
    /\ pc' = "idle"
    /\ UNCHANGED <<prog, build, api_key_entry, api_url_entry,
                   key_param_name_entry, status_area, output_area,
                   validate_button, valid_api_key, locals, gets, last_action>>

\* clear_fields of temp.py
clear_fields_temp ==
    /\ prog = "temp"
    /\ pc = "idle"
    /\ clear_button = "normal"
    /\ api_url_entry' = <<>>
    /\ api_key_entry' = <<>>
    /\ key_param_name_entry' = <<>>
    /\ output_area' = EmptyArea
    /\ UNCHANGED <<prog, build, pc, status_area, validate_button,
                   request_button, clear_button, valid_api_key, locals, gets,
                   last_action>>

\* ----------------------------------------------------------- specifications
validate_api_key_returns ==
    \E resp \in Responses(final_url) : validate_api_key_response(resp)

make_api_request_returns ==
    \E resp \in Responses(final_url) : make_api_request_response(resp)

Edit ==
    \/ \E text \in KeyTexts : EditKey(text)
    \/ \E text \in UrlTexts : EditUrl(text)
    \/ \E text \in ParamTexts : EditParam(text)

\* the steps of a handler that has begun
Running ==
    \/ validate_api_key_returns
    \/ perform_validation_end
    \/ make_api_request_returns
    \/ perform_api_request_end
    \/ messagebox_closed

Next ==
    \/ Edit
    \/ perform_validation_begin
    \/ clear_fields_main
    \/ perform_api_request_begin
    \/ clear_fields_temp
    \/ Running

Spec == Init /\ [][Next]_vars

\* a handler that has begun runs on: requests.get comes back (at the latest
\* with Timeout) and the user closes the messagebox
FairSpec ==
    /\ Spec
    /\ WF_vars(validate_api_key_returns)
    /\ WF_vars(perform_validation_end)
    /\ WF_vars(make_api_request_returns)
    /\ WF_vars(perform_api_request_end)
    /\ WF_vars(messagebox_closed)

\* make_api_request on filled-in entries, up to the GET
NextUrl == perform_api_request_begin

SpecUrl == InitUrl /\ [][NextUrl]_vars

\* ------------------------------------------------------------------- claims
\* the query of a URL as a reader of the URL sees it: every name=value pair,
\* blank values included
QueryPairs(url) == parse_qsl(urlparse(url).query, TRUE)

HasQuery(url) == IndexOf(url, "?") # 0

\* the message field of a body is a text containing / being the phrases
MessageText(body) ==
    IF body.t = "obj" /\ ~GetMessage(body).error /\ GetMessage(body).value.t = "str"
    THEN GetMessage(body).value.v
    ELSE <<"(no text)">>

Answered(status) ==
    /\ pc = "returned"
    /\ response.kind = "http"
    /\ response.status = status

\* C1: when make_api_request injects a non-empty key under a non-empty
\* parameter name into a base URL that has a query string, the query of the
\* final URL holds the parameter name exactly once, with the key as its only
\* value, and every other parameter of the original query keeps exactly its
\* original values, blank values and repeated parameters included.
C1_OtherParametersKept ==
    (pc = "waiting" /\ HasQuery(api_url) /\ api_key # <<>> /\ key_param_name # <<>>)
    => /\ ValuesOf(QueryPairs(final_url), key_param_name) = <<api_key>>
       /\ \A i \in 1..Len(QueryPairs(api_url)) :
            LET name == QueryPairs(api_url)[i].name
            IN  name # key_param_name
                => ValuesOf(QueryPairs(final_url), name)
                   = ValuesOf(QueryPairs(api_url), name)

\* C2: when the API key or the parameter name is empty, the URL given to
\* requests.get is the base URL that make_api_request received, element for
\* element.
C2_BaseUrlUnchanged ==
    (prog = "temp" /\ pc = "waiting" /\ (api_key = <<>> \/ key_param_name = <<>>))
    => final_url = api_url

\* a GET was issued for a base URL that rebuilding would change, with the
\* parameter name given and the key empty
C2_Witness ==
    /\ pc = "waiting"
    /\ api_key = <<>>
    /\ key_param_name = <<"p">>
    /\ api_url = <<"H", "?", "a", "=", "&", "b", "=", "+">>
    /\ final_url = api_url
    /\ BuildUrl(api_url, api_key, key_param_name).url # api_url

\* C3 as stated: an answer 401 whose message is "Invalid API key" makes
\* validate_api_key return a Failure of the invalid-key category.
C3_InvalidKeyCategoryAt401 ==
    (prog = "main" /\ Answered(401)
        /\ MessageText(BodySeq[response.body]) = <<"Invalid API key">>)
    => (~result.ok /\ result.category = "invalid_key")

\* C3 amended: an answer 401 whose message is "Invalid API key" makes
\* validate_api_key return a Failure of the network/API communication
\* category, carrying the HTTPError of raise_for_status: the status check
\* comes before the message check.
C3_HttpErrorAt401 ==
    (prog = "main" /\ Answered(401)
        /\ MessageText(BodySeq[response.body]) = <<"Invalid API key">>)
    => (~result.ok /\ result.category = "network" /\ result.text.exc = "HTTPError")

C3_Witness ==
    /\ prog = "main"
    /\ Answered(401)
    /\ MessageText(BodySeq[response.body]) = <<"Invalid API key">>
    /\ result.category = "network"

\* C4: an answer 404 whose message contains "city not found" and not "invalid
\* api key" makes validate_api_key return Success (test city not found as
\* expected).
C4_CityNotFoundIsSuccess ==
    (prog = "main" /\ Answered(404)
        /\ Contains(Lower(MessageText(BodySeq[response.body])), "city not found")
        /\ ~Contains(Lower(MessageText(BodySeq[response.body])), "invalid api key"))
    => (result.ok /\ result.category = "valid_city_not_found")

\* C5: an answer 200 whose body is not JSON makes validate_api_key and
\* make_api_request return a Failure of the non-JSON category whose text
\* holds the first 500 characters of the body.
C5_NonJsonFailure ==
    (Answered(200) /\ ~IsJson(BodySeq[response.body]))
    => /\ ~result.ok
       /\ result.category = "non_json"
       /\ result.text.snippet = Take(BodySeq[response.body].v, SnippetLen)

\* C6: clear_fields of the validator leaves no remembered key, an empty key
\* entry and an empty status area, whatever was remembered before; and a
\* remembered key that is absent becomes present only by a validation that
\* succeeded.
C6_ClearForgets ==
    [][/\ clear_fields_main
          => /\ valid_api_key' = None
             /\ api_key_entry' = <<>>
             /\ status_area' = EmptyArea
       /\ (valid_api_key.none /\ ~valid_api_key'.none)
          => (pc = "returned" /\ result.ok /\ pc' = "idle")]_vars

\* clear_fields has run while a key was remembered
C6_Witness ==
    /\ last_action.action = "clear"
    /\ last_action.held
    /\ valid_api_key = None
    /\ api_key_entry = <<>>
    /\ status_area = EmptyArea

ControlsDisabled ==
    IF prog = "main" THEN validate_button = "disabled"
    ELSE request_button = "disabled" /\ clear_button = "disabled"

ControlsEnabled ==
    IF prog = "main" THEN validate_button = "normal"
    ELSE request_button = "normal" /\ clear_button = "normal"

ResultShown ==
    IF prog = "main"
    THEN status_area.label \in {"Validation Successful", "Validation Failed"}
    ELSE output_area.label \in {"API Response (JSON):", "API Request Failed:"}

NoGetExpected ==
    IF prog = "main" THEN entered_api_key = <<>>
    ELSE \/ api_url = <<>>
         \/ /\ api_key # <<>>
            /\ key_param_name # <<>>
            /\ urlparse(api_url).error

\* C8: an invocation whose required input is empty or whose URL cannot be
\* constructed returns a Failure without any GET; every other invocation
\* issues exactly one GET, whatever that GET comes back with.
C8_OneGet ==
    /\ gets <= 1
    /\ pc = "waiting" => gets = 1
    /\ pc = "returned"
       => IF NoGetExpected THEN gets = 0 /\ ~result.ok ELSE gets = 1

\* a GET failed at the network and the invocation returned after that one GET
C8_Witness ==
    /\ pc = "returned"
    /\ response.kind = "exception"
    /\ ~result.ok
    /\ gets = 1

\* text of 2-space indentation: a line after an opening bracket is 2 deeper,
\* a closing bracket is 2 shallower, any other line keeps the depth
Opens(line) == line.txt[Len(line.txt)] \in {"{", "["}
Closes(line) == line.txt[1] \in {"}", "]"}

TwoSpaceIndented(lines) ==
    /\ lines # <<>>
    /\ lines[1].ind = 0
    /\ lines[Len(lines)].ind = 0
    /\ \A i \in 1..(Len(lines) - 1) :
          lines[i + 1].ind =
              IF Opens(lines[i]) THEN lines[i].ind + 2
              ELSE IF Closes(lines[i + 1]) THEN lines[i].ind - 2
              ELSE lines[i].ind

\* C9: make_api_request returns Success exactly when the base URL is not
\* empty, the URL was constructed, the GET came back with a status that is
\* not 4xx/5xx and the body is JSON, whatever the JSON says; the payload is
\* then text of 2-space indentation.
C9_SuccessRule ==
    (prog = "temp" /\ pc = "returned")
    => /\ result.ok <=> /\ ~NoGetExpected
                        /\ response.kind = "http"
                        /\ ~(response.status \in 400..599)
                        /\ IsJson(BodySeq[response.body])
       /\ result.ok => TwoSpaceIndented(result.text.payload)

\* a JSON body with an error-like message came back and was returned as
\* Success, on several lines
C9_Witness ==
    /\ prog = "temp"
    /\ Answered(200)
    /\ MessageText(BodySeq[response.body]) = <<"Invalid API key">>
    /\ result.ok
    /\ Len(result.text.payload) > 2

\* C10: a key is remembered only while the handler of the validator that
\* completed last is a validation that succeeded, and it is then the key
\* entry's text of that validation with the blanks around it removed; so a
\* validation that fails forgets a key remembered before.
C10_RememberedKey ==
    ~valid_api_key.none
    => /\ last_action.action = "validate"
       /\ last_action.ok
       /\ valid_api_key.value = Strip(last_action.entry)

\* a validation failed while a key was remembered, and the key is gone
C10_Witness ==
    /\ last_action.action = "validate"
    /\ ~last_action.ok
    /\ last_action.held
    /\ valid_api_key.none

====
